---------------------------- MODULE Spec2Model ----------------------------
(***************************************************************************)
(* Model of the two transform_jinja2.py scripts of vscode-pddl:            *)
(*   src/scripts/transform_jinja2.py          (custom filters, "scripts")  *)
(*   src/client/scripts/transform_jinja2.py   (no filters, "client")       *)
(*                                                                         *)
(* The driver is a straight-line process; one action per statement that    *)
(* touches the outside world.  The three helpers tif_filter, map_filter    *)
(* and sanitize_line_ends are pure functions, modelled as operators and    *)
(* exercised by one specification each.                                    *)
(*                                                                         *)
(* Text that is split into lines is a sequence of one-character strings;   *)
(* a fixed piece of text without a line terminator may be one element.     *)
(***************************************************************************)
EXTENDS Integers, Sequences, FiniteSets, TLC

VARIABLES
    pc,             \* position of the script
    script,         \* "scripts" (with filters) or "client" (without)
    engine,         \* TRUE iff "from jinja2 import Template" succeeds
    argv,           \* sys.argv[1:]
    host,           \* how the host's str.splitlines converts its argument
    version,        \* sys.version
    stdin_read,     \* TRUE once sys.stdin.readlines() has returned
    template_text,  \* the module-level template_text
    data_path,      \* main's data_path
    fp,             \* the data file: "unopened", "open", "closed"
    input_data,     \* main's input_data
    filters,        \* template.environment.filters (the names registered)
    template,       \* "none" until Template(template_text) has returned
    rendered,       \* main's rendered
    stdout,         \* characters written to standard output
    stderr,         \* messages written to standard error
    status,         \* exit status of the process, once pc = "exited"
    call,           \* arguments of the pure function under test
    result          \* its outcome, Pending before the call

drv == <<pc, script, engine, argv, version, stdin_read, template_text,
         data_path, fp, input_data, filters, template, rendered,
         stdout, stderr, status>>
vars == <<pc, script, engine, argv, host, version, stdin_read, template_text,
          data_path, fp, input_data, filters, template, rendered,
          stdout, stderr, status, call, result>>

---------------------------------------------------------------------------
(* Bounds *)

MaxTime == 2
MaxValue == 1
MaxTokens == 3
MaxLen == 3
MaxVersionLen == 3

---------------------------------------------------------------------------
(* Outcomes of a call: a returned value or a raised exception *)

Return(v) == [kind |-> "return", val |-> v]
Raise(e) == [kind |-> "raise", exc |-> e]
Pending == [kind |-> "pending"]
NoCall == [fn |-> "none"]

(* The driver's variables while a pure function is exercised on its own. *)
DriverIdle ==
    /\ pc = "idle" /\ script = "scripts" /\ engine = TRUE /\ argv = <<>>
    /\ version = <<>> /\ stdin_read = FALSE /\ template_text = <<>>
    /\ data_path = "" /\ fp = "unopened" /\ input_data = [type |-> "unbound"]
    /\ filters = {} /\ template = "none" /\ rendered = <<>>
    /\ stdout = <<>> /\ stderr = <<>> /\ status = "running"

---------------------------------------------------------------------------
(* tif_filter *)

RECURSIVE str_join(_, _)
(* sep.join(parts) on strings *)
str_join(sep, parts) ==
    IF Len(parts) = 0 THEN ""
    ELSE IF Len(parts) = 1 THEN parts[1]
    ELSE parts[1] \o sep \o str_join(sep, Tail(parts))

(* "{}".format(n) of an integer *)
format_int(n) == ToString(n)

tif_filter_nonneg(time, value, function_name) ==
    LET assignment == "(= (" \o str_join(" ", function_name) \o ") "
                          \o format_int(value) \o ")"
    IN  IF time >= 0
        THEN "(at " \o format_int(time) \o " " \o assignment \o ")"
        ELSE assignment

tif_filter(time, value, function_name) ==
    LET assignment == "(= (" \o str_join(" ", function_name) \o ") "
                          \o format_int(value) \o ")"
    IN  IF time > 0
        THEN "(at " \o format_int(time) \o " " \o assignment \o ")"
        ELSE assignment

Times == (-MaxTime .. MaxTime) \cup {10}
Values == (0 .. MaxValue) \cup {5}
Tokens == {"fuel", "truck1"}
NameLists == UNION {[1..k -> Tokens] : k \in 0..MaxTokens}

InitTif ==
    /\ DriverIdle
    /\ host = "truthy"
    /\ \E t \in Times, v \in Values, n \in NameLists :
          call = [fn |-> "tif", time |-> t, value |-> v, function_name |-> n]
    /\ result = Pending

TifCall ==
    /\ call.fn = "tif"
    /\ result = Pending
    /\ result' = Return(tif_filter(call.time, call.value, call.function_name))
    /\ UNCHANGED <<drv, host, call>>

NextTif == TifCall
SpecTif == InitTif /\ [][NextTif]_vars

RECURSIVE SpacedName(_)
(* the tokens in their given order with one space between neighbours *)
SpacedName(n) ==
    IF Len(n) = 1 THEN n[1]
    ELSE SpacedName(SubSeq(n, 1, Len(n) - 1)) \o " " \o n[Len(n)]

(* C5: tif_filter(t, v, n1..nk), k >= 1, is "(at <t> (= (<n1 ... nk>) <v>))"
   when t > 0 and the bare "(= (<n1 ... nk>) <v>)" when t <= 0, the tokens
   joined by single spaces in order; in particular tif(10, 5, fuel, truck1)
   is "(at 10 (= (fuel truck1) 5))" and tif(0, 5, fuel, truck1) is
   "(= (fuel truck1) 5)". *)
TifLaws ==
    (call.fn = "tif" /\ result.kind # "pending" /\ Len(call.function_name) >= 1) =>
        LET bare == "(= (" \o SpacedName(call.function_name) \o ") "
                        \o ToString(call.value) \o ")"
        IN  /\ result.kind = "return"
            /\ call.time > 0 =>
                   result.val = "(at " \o ToString(call.time) \o " " \o bare \o ")"
            /\ call.time <= 0 => result.val = bare
            /\ (call.time = 10 /\ call.value = 5
                  /\ call.function_name = <<"fuel", "truck1">>) =>
                   result.val = "(at 10 (= (fuel truck1) 5))"
            /\ (call.time = 0 /\ call.value = 5
                  /\ call.function_name = <<"fuel", "truck1">>) =>
                   result.val = "(= (fuel truck1) 5)"

TifWitness ==
    /\ call.fn = "tif" /\ result.kind = "return"
    /\ call.time = 10 /\ call.value = 5
    /\ call.function_name = <<"fuel", "truck1">>
    /\ result.val = "(at 10 (= (fuel truck1) 5))"

---------------------------------------------------------------------------
(* map_filter *)

(* JSON values as json.load builds them, tagged with their Python type *)
JInt(n) == [type |-> "int", int |-> n]
JStr(s) == [type |-> "str", str |-> s]
JList(l) == [type |-> "list", elems |-> l]
JDict(m) == [type |-> "dict", entries |-> m]
JNone == [type |-> "NoneType"]

(* Names the host's objects answer to as attributes (a representative few
   of each type's methods), which is what hasattr(value, name) looks at. *)
HostAttributes(value) ==
    {"__class__"} \cup
    CASE value.type = "dict" -> {"items", "keys", "get"}
      [] value.type = "list" -> {"append", "index", "count"}
      [] value.type = "str" -> {"upper", "index", "count"}
      [] value.type = "int" -> {"real"}
      [] OTHER -> {}

hasattr(value, name) == name \in HostAttributes(value)

(* value[key] with a string key *)
getitem(value, key) ==
    IF value.type = "dict"
    THEN IF key \in DOMAIN value.entries
         THEN Return(value.entries[key])
         ELSE Raise("KeyError")
    ELSE Raise("TypeError")

map_filter(value, attribute_name, default) ==
    IF hasattr(value, attribute_name)
    THEN getitem(value, attribute_name)
    ELSE Return(default)

DictKeys == {"x", "items"}
Leaves == {JInt(42), JInt(1), JNone}
Dicts == UNION {{JDict(m) : m \in [K -> Leaves]} : K \in SUBSET DictKeys}
MapValues == Dicts \cup {JInt(0), JStr("abc"), JNone, JList(<<JInt(1)>>)}
AttributeNames == {"x", "y", "items", "upper", "__class__"}
Defaults == {JInt(0), JStr("d")}
(* the arguments after attribute_name: none, or the default *)
DefaultArgs == {<<>>} \cup {<<d>> : d \in Defaults}

InitMapattr ==
    /\ DriverIdle
    /\ host = "truthy"
    /\ \E v \in MapValues, k \in AttributeNames, r \in DefaultArgs :
          call = [fn |-> "mapattr", value |-> v, attribute_name |-> k, rest |-> r]
    /\ result = Pending

(* the default parameter: JNone when the caller leaves it out *)
DefaultOf(c) == IF Len(c.rest) = 0 THEN JNone ELSE c.rest[1]

MapattrCall ==
    /\ call.fn = "mapattr"
    /\ result = Pending
    /\ result' = map_filter(call.value, call.attribute_name, DefaultOf(call))
    /\ UNCHANGED <<drv, host, call>>

NextMapattr == MapattrCall
SpecMapattr == InitMapattr /\ [][NextMapattr]_vars

HasKey(c) == c.value.type = "dict" /\ c.attribute_name \in DOMAIN c.value.entries

(* C1: for a mapping M that contains the key k and any default d,
   map_filter(M, k, d) returns M[k], without raising. *)
MapattrPresent ==
    (call.fn = "mapattr" /\ result.kind # "pending" /\ HasKey(call)) =>
        result = Return(call.value.entries[call.attribute_name])

(* C2: for a value V without the key k (a mapping that lacks k, or any
   non-mapping) map_filter(V, k, d) returns d, JNone when d is omitted,
   and raises nothing, whatever the name k. *)
MapattrAbsent ==
    (call.fn = "mapattr" /\ result.kind # "pending" /\ ~HasKey(call)) =>
        result = Return(DefaultOf(call))

---------------------------------------------------------------------------
(* sanitize_line_ends *)

LF == "\n"
CR == "\r"
FF == "\f"
(* the line boundaries of str.splitlines that the alphabet contains *)
LineBreaks == {LF, CR, FF}
Alphabet == {"a", ",", LF, CR, FF}
Texts(A, n) == UNION {[1..k -> A] : k \in 0..n}

RECURSIVE splitlines_from(_, _, _)
(* the loop of str.splitlines from position i on *)
splitlines_from(s, i, keepends) ==
    IF i > Len(s) THEN <<>>
    ELSE LET breaks == {k \in i..Len(s) : s[k] \in LineBreaks}
             brk == IF breaks = {} THEN Len(s) + 1
                    ELSE CHOOSE k \in breaks : \A j \in breaks : k <= j
             next == IF brk > Len(s) THEN brk
                     ELSE IF s[brk] = CR /\ brk + 1 <= Len(s) /\ s[brk + 1] = LF
                          THEN brk + 2
                          ELSE brk + 1
             eol == IF keepends THEN next ELSE brk
         IN  <<SubSeq(s, i, eol - 1)>> \o splitlines_from(s, next, keepends)

splitlines(s, keepends) == splitlines_from(s, 1, keepends)

RECURSIVE text_join(_, _)
(* sep.join(parts) on texts *)
text_join(sep, parts) ==
    IF Len(parts) = 0 THEN <<>>
    ELSE IF Len(parts) = 1 THEN parts[1]
    ELSE parts[1] \o sep \o text_join(sep, Tail(parts))

(* How the host's str.splitlines takes a str as keepends: hosts that want an
   integer raise TypeError, the others use its truth value. *)
Hosts == {"int_only", "truthy"}

sanitize_line_ends(value, h) ==
    IF h = "int_only" THEN Raise("TypeError")
    ELSE Return(text_join(<<",", " ">>, splitlines(value, Len(value) > 0)))

InitSanitize ==
    /\ DriverIdle
    /\ host \in Hosts
    /\ \E s \in Texts(Alphabet, MaxLen) : call = [fn |-> "sanitize", value |-> s]
    /\ result = Pending

SanitizeCall ==
    /\ call.fn = "sanitize"
    /\ result = Pending
    /\ result' = sanitize_line_ends(call.value, host)
    /\ UNCHANGED <<drv, host, call>>

NextSanitize == SanitizeCall
SpecSanitize == InitSanitize /\ [][NextSanitize]_vars

(* C3: sanitize_line_ends(s) returns a text without any line terminator,
   each terminator of s having been replaced by ", ". *)
SanitizeLaw ==
    (call.fn = "sanitize" /\ result.kind # "pending") =>
        /\ result.kind = "return"
        /\ \A k \in 1..Len(result.val) : result.val[k] \notin LineBreaks
        /\ result.val = text_join(<<",", " ">>, splitlines(call.value, FALSE))

---------------------------------------------------------------------------
(* The driver: module level code and main *)

Scripts == {"scripts", "client"}
ArgLists == {<<>>, <<"data.json">>, <<"data.json", "extra">>}
Versions == Texts({"3", LF}, MaxVersionLen) \ {<<>>}
Templates == {<<"(problem p1)">>, <<"(problem {{ data.name }})">>,
              <<"{{ data | mapattr('x', 0) }}">>}
RenderedTexts == {<<>>, <<"(problem p1)">>, <<"(define", LF, ")">>}
JsonDocs == {JDict(<<>>), JDict([x |-> JInt(42)]), JList(<<JInt(1)>>)}
(* names the engine's environment registers by itself (two of them) *)
DefaultFilters == {"upper", "default"}
Unbound == <<"<unbound>">>
Basename == "transform_jinja2.py"

MsgNotInstalled ==
    <<"Jinja2 is not installed. Run this command in the terminal: python -m pip install jinja2">>
UsageLine == <<"Usage: ", Basename, " <data.json>">>
Traceback(at) == <<"Traceback (most recent call last):", at>>
Banner == <<";", " This PDDL problem file was generated using Jinja2 template">>

(* the status the parent sees after exit(code) *)
ExitStatus(code) == code % 256

Init ==
    /\ pc = "import"
    /\ script \in Scripts
    /\ engine \in BOOLEAN
    /\ argv \in ArgLists
    /\ host \in Hosts
    /\ version \in Versions
    /\ stdin_read = FALSE
    /\ template_text = Unbound
    /\ data_path = ""
    /\ fp = "unopened"
    /\ input_data = [type |-> "unbound"]
    /\ filters = DefaultFilters
    /\ template = "none"
    /\ rendered = Unbound
    /\ stdout = <<>>
    /\ stderr = <<>>
    /\ status = "running"
    /\ call = NoCall
    /\ result = Pending

env == <<script, engine, argv, host, version, call, result>>

(* an exception nobody catches: traceback on stderr, exit status 1 *)
Uncaught(at) ==
    /\ stderr' = Append(stderr, Traceback(at))
    /\ status' = 1
    /\ pc' = "exited"

(* exit(-1) after eprint(msg) *)
ExitWith(msg) ==
    /\ stderr' = Append(stderr, msg)
    /\ status' = ExitStatus(-1)
    /\ pc' = "exited"

(* print(text) *)
print(text) == stdout' = stdout \o text \o <<LF>>

(* The import guard without its exit. *)
ImportJinja_noexit ==
    /\ pc = "import"
    /\ IF engine
       THEN UNCHANGED stderr
       ELSE stderr' = Append(stderr, MsgNotInstalled)
    /\ pc' = "read_stdin"
    /\ UNCHANGED <<env, status, stdin_read, template_text, data_path, fp,
                   input_data, filters, template, rendered, stdout>>

ImportJinja ==
    /\ pc = "import"
    /\ IF engine
       THEN pc' = "read_stdin" /\ UNCHANGED <<stderr, status>>
       ELSE ExitWith(MsgNotInstalled)
    /\ UNCHANGED <<env, stdin_read, template_text, data_path, fp,
                   input_data, filters, template, rendered, stdout>>

ReadStdin ==
    /\ pc = "read_stdin"
    /\ \E t \in Templates : template_text' = t
    /\ stdin_read' = TRUE
    /\ pc' = "main"
    /\ UNCHANGED <<env, data_path, fp, input_data, filters, template,
                   rendered, stdout, stderr, status>>

BadUsage_never(args) == Len(args) < 0

BadUsage(args) == Len(args) < 1

Main ==
    /\ pc = "main"
    /\ IF BadUsage(argv)
       THEN ExitWith(UsageLine) /\ UNCHANGED data_path
       ELSE IF Len(argv) = 0
            THEN Uncaught("data_path = args[0]") /\ UNCHANGED data_path
            ELSE /\ data_path' = argv[1]
                 /\ pc' = "open"
                 /\ UNCHANGED <<stderr, status>>
    /\ UNCHANGED <<env, stdin_read, template_text, fp, input_data, filters,
                   template, rendered, stdout>>

OpenData ==
    /\ pc = "open"
    /\ \E ok \in BOOLEAN :
          IF ok
          THEN fp' = "open" /\ pc' = "load" /\ UNCHANGED <<stderr, status>>
          ELSE Uncaught("io.open") /\ UNCHANGED fp
    /\ UNCHANGED <<env, stdin_read, template_text, data_path, input_data,
                   filters, template, rendered, stdout>>

LoadJson ==
    /\ pc = "load"
    /\ fp' = "closed"
    /\ \E ok \in BOOLEAN :
          IF ok
          THEN /\ \E d \in JsonDocs : input_data' = d
               /\ pc' = "construct"
               /\ UNCHANGED <<stderr, status>>
          ELSE Uncaught("json.load") /\ UNCHANGED input_data
    /\ UNCHANGED <<env, stdin_read, template_text, data_path, filters,
                   template, rendered, stdout>>

(* Template(template_text); the engine may reject the text *)
Construct ==
    /\ pc = "construct"
    /\ \E ok \in BOOLEAN :
          IF ok
          THEN /\ template' = "constructed"
               /\ pc' = IF script = "scripts" THEN "install_tif" ELSE "render"
               /\ UNCHANGED <<stderr, status>>
          ELSE Uncaught("Template") /\ UNCHANGED template
    /\ UNCHANGED <<env, stdin_read, template_text, data_path, fp, input_data,
                   filters, rendered, stdout>>

InstallTif ==
    /\ pc = "install_tif"
    /\ filters' = filters \cup {"tif"}
    /\ pc' = "install_mapattr"
    /\ UNCHANGED <<env, stdin_read, template_text, data_path, fp, input_data,
                   template, rendered, stdout, stderr, status>>

InstallMapattr ==
    /\ pc = "install_mapattr"
    /\ filters' = filters \cup {"mapattr"}
    /\ pc' = "render"
    /\ UNCHANGED <<env, stdin_read, template_text, data_path, fp, input_data,
                   template, rendered, stdout, stderr, status>>

(* A render that streams what it has to standard output before it fails. *)
Render_streaming ==
    /\ pc = "render"
    /\ \E ok \in BOOLEAN, text \in RenderedTexts :
          IF ok
          THEN /\ rendered' = text
               /\ pc' = "print_rendered"
               /\ UNCHANGED <<stdout, stderr, status>>
          ELSE /\ Uncaught("template.render")
               /\ stdout' = stdout \o text \o <<"(">>
               /\ UNCHANGED rendered
    /\ UNCHANGED <<env, stdin_read, template_text, data_path, fp, input_data,
                   filters, template>>

Render ==
    /\ pc = "render"
    /\ \E ok \in BOOLEAN :
          IF ok
          THEN /\ \E text \in RenderedTexts : rendered' = text
               /\ pc' = "print_rendered"
               /\ UNCHANGED <<stderr, status>>
          ELSE Uncaught("template.render") /\ UNCHANGED rendered
    /\ UNCHANGED <<env, stdin_read, template_text, data_path, fp, input_data,
                   filters, template, stdout>>

PrintRendered ==
    /\ pc = "print_rendered"
    /\ print(rendered)
    /\ pc' = "print_banner"
    /\ UNCHANGED <<env, stdin_read, template_text, data_path, fp, input_data,
                   filters, template, rendered, stderr, status>>

PrintBanner ==
    /\ pc = "print_banner"
    /\ print(Banner)
    /\ pc' = "print_python"
    /\ UNCHANGED <<env, stdin_read, template_text, data_path, fp, input_data,
                   filters, template, rendered, stderr, status>>

(* the runtime identifier as the script hands it to print *)
PythonId ==
    IF script = "scripts" THEN sanitize_line_ends(version, host)
    ELSE Return(version)

PrintPython ==
    /\ pc = "print_python"
    /\ IF PythonId.kind = "raise"
       THEN Uncaught("sanitize_line_ends") /\ UNCHANGED stdout
       ELSE /\ print(<<";", "    Python: ">> \o PythonId.val)
            /\ pc' = "print_data"
            /\ UNCHANGED <<stderr, status>>
    /\ UNCHANGED <<env, stdin_read, template_text, data_path, fp, input_data,
                   filters, template, rendered>>

PrintData ==
    /\ pc = "print_data"
    /\ print(<<";", "    Data: ", data_path>>)
    /\ pc' = "print_time"
    /\ UNCHANGED <<env, stdin_read, template_text, data_path, fp, input_data,
                   filters, template, rendered, stderr, status>>

(* the last statement of main; the interpreter then exits with 0 *)
PrintTime ==
    /\ pc = "print_time"
    /\ print(<<";", "    Time: ", "<now>">>)
    /\ pc' = "exited"
    /\ status' = 0
    /\ UNCHANGED <<env, stdin_read, template_text, data_path, fp, input_data,
                   filters, template, rendered, stderr>>

Next ==
    \/ ImportJinja
    \/ ReadStdin
    \/ Main
    \/ OpenData
    \/ LoadJson
    \/ Construct
    \/ InstallTif
    \/ InstallMapattr
    \/ Render
    \/ PrintRendered
    \/ PrintBanner
    \/ PrintPython
    \/ PrintData
    \/ PrintTime

Spec == Init /\ [][Next]_vars

---------------------------------------------------------------------------
(* Properties of the driver *)

RECURSIVE LinesOf(_)
(* the lines of an output text, each ended by LF (the last one possibly not) *)
LinesOf(s) ==
    LET ends == {k \in 1..Len(s) : s[k] = LF}
    IN  IF s = <<>> THEN <<>>
        ELSE IF ends = {} THEN <<s>>
        ELSE LET k == CHOOSE e \in ends : \A j \in ends : e <= j
             IN  <<SubSeq(s, 1, k - 1)>> \o LinesOf(SubSeq(s, k + 1, Len(s)))

Succeeded == pc = "exited" /\ status = 0

(* C4: on every successful run of either script, whatever the runtime
   identifier, standard output is the rendered text followed by exactly
   four lines, banner, Python, Data, Time, each beginning with ";". *)
TrailerShape ==
    Succeeded =>
        LET head == rendered \o <<LF>>
            tail == SubSeq(stdout, Len(head) + 1, Len(stdout))
            ls == LinesOf(tail)
        IN  /\ Len(stdout) >= Len(head)
            /\ SubSeq(stdout, 1, Len(head)) = head
            /\ Len(ls) = 4
            /\ \A i \in 1..Len(ls) : Len(ls[i]) >= 2 /\ ls[i][1] = ";"
            /\ ls[1] = Banner
            /\ ls[2][2] = "    Python: "
            /\ ls[3] = <<";", "    Data: ", data_path>>
            /\ ls[4][2] = "    Time: "

(* C6: in the script with filters, tif and mapattr are in the environment's
   registry whenever the engine is about to process the template text:
   when the template is constructed and when it is rendered. *)
FilterAvailability ==
    (script = "scripts" /\ pc \in {"construct", "render"}) =>
        {"tif", "mapattr"} \subseteq filters

(* C7: when the engine cannot be imported, neither standard input nor the
   data file is ever read, nothing is written to standard output, and the
   process ends with the remediation message on standard error and a
   non-zero status. *)
EngineMissing ==
    ~engine =>
        /\ ~stdin_read
        /\ fp = "unopened"
        /\ stdout = <<>>
        /\ pc \in {"import", "exited"}
        /\ pc = "exited" => (stderr = <<MsgNotInstalled>> /\ status # 0)

EngineMissingWitness ==
    ~engine /\ pc = "exited" /\ stderr = <<MsgNotInstalled>> /\ status = 255

(* C8: with the engine available and no positional argument, the script
   never opens a data file, never constructs or renders a template, writes
   nothing to standard output, and ends with the usage line (program
   basename and <data.json>) on standard error and a non-zero status. *)
BadUsageExit ==
    (engine /\ Len(argv) = 0) =>
        /\ fp = "unopened"
        /\ template = "none"
        /\ rendered = Unbound
        /\ stdout = <<>>
        /\ pc \in {"import", "read_stdin", "main", "exited"}
        /\ pc = "exited" =>
              /\ stderr = <<UsageLine>>
              /\ UsageLine[2] = Basename /\ UsageLine[3] = " <data.json>"
              /\ status # 0

BadUsageWitness ==
    engine /\ Len(argv) = 0 /\ pc = "exited" /\ stderr = <<UsageLine>>
        /\ status = 255

(* C9: standard input is read only in runs where the engine is available
   and at least one positional argument was given; a run that ends in
   BadUsage has not read standard input. *)
StdinOnlyWithArgs ==
    stdin_read => (engine /\ Len(argv) >= 1)

FailedBeforeOutput ==
    /\ pc = "exited"
    /\ Len(stderr) >= 1
    /\ stderr[Len(stderr)] \in {Traceback("io.open"), Traceback("json.load"),
                                Traceback("Template"), Traceback("template.render")}

(* C10: a run that fails while opening the data file, parsing it,
   constructing the template or rendering it ends with a non-zero status
   and an empty standard output; nothing is written to standard output
   before render has returned the rendered string. *)
NoOutputOnFailure ==
    /\ FailedBeforeOutput => (status # 0 /\ stdout = <<>>)
    /\ stdout # <<>> => rendered # Unbound

NoOutputWitness ==
    FailedBeforeOutput /\ stderr = <<Traceback("template.render")>>
        /\ template = "constructed" /\ stdout = <<>> /\ status = 1

=============================================================================
